---- MODULE Spec2Model ----
(***************************************************************************)
(* A model of the sudoku crate (src/src/lib.rs): the backtracking solver   *)
(* Puzzle::solve with its scratch space (InProgress, Obstruction, Coords), *)
(* and the conversions that build and render a Puzzle.                     *)
(*                                                                         *)
(* Option<T> is modelled as a sequence of length 0 (None) or 1 (Some(x)).  *)
(* A grid [[u8; 9]; 9] is a function over 0..8 of functions over 0..8, so  *)
(* that the index arithmetic of the source carries over unchanged.         *)
(***************************************************************************)
EXTENDS Integers, Sequences, FiniteSets, TLC

VARIABLES
    self,       \* per run: the Puzzle solve() is called on (&self)
    scratch,    \* per run: the InProgress value (puzzle, obstructions)
    coords,     \* per run: the Coords cursor, an Option<(usize, usize)>
    pc,         \* per run: "idle", "call", "new", "iloop", "backtrack", "return", "panic"
    ret,        \* per run: the value solve() returned, an Option<Solution>
    at,         \* per run: the loop indices (i, j) of InProgress::new
    steps,      \* per run: history, the number of steps the run has taken
    traced,     \* whether the runs keep a trail
    trail,      \* per run: history of (grid, cursor) at every cursor assignment
    input,      \* the value handed to the conversions
    calls,      \* the conversions called so far: what was called, on what, the result
    proc        \* the process of the command: position, flag, output streams, exit status

vars == <<self, scratch, coords, pc, ret, at, steps, traced, trail, input, calls, proc>>

----------------------------------------------------------------------------
(* Program constants *)

\* The side of the grid and the largest digit: the 9 of [[u8; 9]; 9].
N == 9
\* The side of a box: the 3 of `y % 3`.
BOX == 3
\* The counter value Obstruction::is_full compares with.
FULL == 3
\* The largest value of a counter (u8).
U8MAX == 255

Idx == 0 .. (N - 1)

None == <<>>
Some(x) == <<x>>
IsSome(o) == o # None
Unwrap(o) == o[1]

\* A grid written as nine rows of nine numbers, as the arrays of the source.
GridOf(rows) == [i \in Idx |-> [j \in Idx |-> rows[i + 1][j + 1]]]

----------------------------------------------------------------------------
(* Obstruction *)

ObstructionNew == [n \in 1 .. N |-> 0]

\* add with `+= 2`.
ObAddTwo(o, number) == [o EXCEPT ![number] = @ + 2]

ObAdd(o, number) == [o EXCEPT ![number] = @ + 1]

ObRemove(o, number) == [o EXCEPT ![number] = @ - 1]

ForNumber(o, number) == o[number]

\* is_full with any() in the place of all().
IsFullAny(o) == \E n \in 1 .. N : o[n] = FULL

IsFull(o) == \A n \in 1 .. N : o[n] = FULL

----------------------------------------------------------------------------
(* Coords *)

CoordsNew == Some(<<0, 0>>)

\* Advance without `i += 1`: past column 8 the cursor wraps to column 0 of
\* the same row.
AdvanceSameRow(c) ==
    IF c = None THEN c
    ELSE LET i == Unwrap(c)[1]
             j == Unwrap(c)[2]
         IN  IF j + 1 >= N THEN Some(<<i, 0>>) ELSE Some(<<i, j + 1>>)

Advance(c) ==
    IF c = None THEN c
    ELSE LET i == Unwrap(c)[1]
             j == Unwrap(c)[2]
             j1 == j + 1
             i2 == IF j1 >= N THEN i + 1 ELSE i
             j2 == IF j1 >= N THEN 0 ELSE j1
         IN  IF i2 >= N THEN None ELSE Some(<<i2, j2>>)

\* The value retreat() returns; the cursor is assigned only when it is Some.
Retreat(c) ==
    IF c = None THEN None
    ELSE LET i == Unwrap(c)[1]
             j == Unwrap(c)[2]
         IN  IF j >= 1 THEN Some(<<i, j - 1>>)
             ELSE IF i >= 1 THEN Some(<<i - 1, N - 1>>)
             ELSE None

----------------------------------------------------------------------------
(* InProgress *)

\* The cells foreach_obstructed calls adjust_obstruction on, in call order.
RECURSIVE LineVisits(_, _, _)
LineVisits(y, x, i) ==
    IF i >= N THEN <<>>
    ELSE (IF i # x THEN <<(<<y, i>>)>> ELSE <<>>)
         \o (IF i # y THEN <<(<<i, x>>)>> ELSE <<>>)
         \o LineVisits(y, x, i + 1)

\* BoxVisits without the wrap-around inside the box: the two rows below and
\* the two columns to the right of the cell.
BoxVisitsNoWrap(y, x) ==
    << <<y + 1, x + 1>>, <<y + 1, x + 2>>, <<y + 2, x + 1>>, <<y + 2, x + 2>> >>

BoxVisits(y, x) ==
    LET t1 == y % BOX
        t2 == x % BOX
        x0 == x - t2
        y0 == y - t1
    IN  << <<y0 + ((t1 + 1) % BOX), x0 + ((t2 + 1) % BOX)>>,
           <<y0 + ((t1 + 1) % BOX), x0 + ((t2 + 2) % BOX)>>,
           <<y0 + ((t1 + 2) % BOX), x0 + ((t2 + 1) % BOX)>>,
           <<y0 + ((t1 + 2) % BOX), x0 + ((t2 + 2) % BOX)>> >>

Visited(y, x) == LineVisits(y, x, 0) \o BoxVisits(y, x)

\* Visited, tabulated.
VisitedAt == [y \in Idx |-> [x \in Idx |-> Visited(y, x)]]

\* How many times the loops of foreach_obstructed(y, x, _) reach (a, b).
VisitCount ==
    [y \in Idx |-> [x \in Idx |-> [a \in Idx |-> [b \in Idx |->
        Cardinality({k \in 1 .. Len(VisitedAt[y][x]) : VisitedAt[y][x][k] = <<a, b>>})]]]]

\* func applied c times to the record o, func being |o| o.add(num) (add) or
\* |o| o.remove(num).
RECURSIVE Apply(_, _, _, _)
Apply(o, add, num, c) ==
    IF c = 0 THEN o
    ELSE Apply(IF add THEN ObAdd(o, num) ELSE ObRemove(o, num), add, num, c - 1)

\* foreach_obstructed: adjust_obstruction applies func to the record of a
\* cell, where it has one, each time the loops reach the cell.
ForeachObstructed(s, add, num, y, x) ==
    [s EXCEPT !.obstructions = [a \in Idx |-> [b \in Idx |->
        IF s.obstructions[a][b] = None \/ VisitCount[y][x][a][b] = 0
        THEN s.obstructions[a][b]
        ELSE Some(Apply(Unwrap(s.obstructions[a][b]), add, num, VisitCount[y][x][a][b]))]]]

AddObstruction(s, y, x) == ForeachObstructed(s, TRUE, s.puzzle[y][x], y, x)

\* RemoveObstruction that leaves the records as they are.
RemoveNothing(s, y, x) == s

RemoveObstruction(s, y, x) == ForeachObstructed(s, FALSE, s.puzzle[y][x], y, x)

\* Whether adding or removing num at the peers of (y, x) has taken a counter
\* out of the range of u8, or num is no index of a record: the arithmetic of
\* Obstruction::add and remove panics (overflow checks on).
Overflowed(s, num, y, x) ==
    \/ num \notin 1 .. N
    \/ \E k \in 1 .. Len(VisitedAt[y][x]) :
          LET o == s.obstructions[VisitedAt[y][x][k][1]][VisitedAt[y][x][k][2]]
          IN  o # None /\ Unwrap(o)[num] \notin 0 .. U8MAX

\* The scratch space InProgress::new starts its loops with.
InProgressStart(p) ==
    [puzzle |-> p,
     obstructions |-> [i \in Idx |-> [j \in Idx |-> Some(ObstructionNew)]]]

\* NewCell without `scratch.obstructions[i][j] = None`: a given cell keeps a
\* record, as the unfilled ones.
NewCellKeepsRecord(s, i, j) ==
    IF s.puzzle[i][j] # 0 THEN AddObstruction(s, i, j) ELSE s

\* The body of the loops of InProgress::new at (i, j): a cell that is filled
\* in loses its record and obstructs its peers.
NewCell(s, i, j) ==
    IF s.puzzle[i][j] # 0
    THEN AddObstruction([s EXCEPT !.obstructions[i][j] = None], i, j)
    ELSE s

----------------------------------------------------------------------------
(* Puzzle::solve *)

\* NextTest trying the numbers from 9 downwards: the last number from
\* next_test on that no peer obstructs, or a number above 9.
NextTestDescending(o, next_test) ==
    LET free == {n \in next_test .. N : ForNumber(o, n) = 0}
    IN  IF free = {} THEN N + 1
        ELSE CHOOSE n \in free : \A m \in free : m <= n

\* The inner `while next_test <= 9` loop: the first number from next_test on
\* that no peer obstructs, or a number above 9.
RECURSIVE NextTest(_, _)
NextTest(o, next_test) ==
    IF next_test > N THEN next_test
    ELSE IF ForNumber(o, next_test) = 0 THEN next_test
    ELSE NextTest(o, next_test + 1)

\* Retract without `scratch.puzzle[i][j] = 0`.
RetractKeepsValue(s, i, j) ==
    IF s.puzzle[i][j] # 0 THEN RemoveObstruction(s, i, j) ELSE s

\* Retract with remove_obstruction called twice.
RetractTwice(s, i, j) ==
    IF s.puzzle[i][j] # 0
    THEN [RemoveObstruction(RemoveObstruction(s, i, j), i, j) EXCEPT !.puzzle[i][j] = 0]
    ELSE s

\* Lines 32-36: take the cell's value back.
Retract(s, i, j) ==
    IF s.puzzle[i][j] # 0
    THEN [RemoveObstruction(s, i, j) EXCEPT !.puzzle[i][j] = 0]
    ELSE s

\* Lines 40-41: accept next_test for the cell.
Accept(s, i, j, next_test) ==
    AddObstruction([s EXCEPT !.puzzle[i][j] = next_test], i, j)

\* Candidate with `next_test += 1` done twice: the number after the cell's
\* own is never tried.
CandidateSkips(s, i, j) ==
    NextTest(Unwrap(s.obstructions[i][j]), s.puzzle[i][j] + 2)

\* Candidate reading the record that run 1 keeps for the cell, where run 1
\* has one: the records are shared between the runs.
CandidateOfRun1(s, i, j) ==
    NextTest(IF scratch[1].obstructions[i][j] # None
             THEN Unwrap(scratch[1].obstructions[i][j])
             ELSE Unwrap(s.obstructions[i][j]),
             s.puzzle[i][j] + 1)

\* The value the next_test variable has after the inner loop at cell (i, j).
Candidate(s, i, j) ==
    NextTest(Unwrap(s.obstructions[i][j]), s.puzzle[i][j] + 1)

Solution(grid) == grid

Runs == {1, 2}

\* The trail of run r with one more entry, where a trail is kept.
Mark(r, grid, c, head) ==
    IF traced THEN Append(trail[r], [grid |-> grid, coords |-> c, head |-> head])
    ELSE trail[r]

\* Run r has taken one more step.
Tick(r) == steps' = [steps EXCEPT ![r] = @ + 1]

\* solve() is entered and calls InProgress::new, which builds its value.
Call(r) ==
    /\ pc[r] = "call"
    /\ scratch' = [scratch EXCEPT ![r] = InProgressStart(self[r])]
    /\ at' = [at EXCEPT ![r] = <<0, 0>>]
    /\ pc' = [pc EXCEPT ![r] = "new"]
    /\ UNCHANGED <<self, coords, ret, traced, input, calls, proc, trail>>
    /\ Tick(r)

\* One pass through the body of the loops of InProgress::new; after the last,
\* new() returns and solve() creates its cursor.
New(r) ==
    /\ pc[r] = "new"
    /\ LET i == at[r][1]
           j == at[r][2]
           last == i = N - 1 /\ j = N - 1
       IN  /\ scratch' = [scratch EXCEPT ![r] = NewCell(@, i, j)]
           /\ at' = [at EXCEPT ![r] = IF j + 1 < N THEN <<i, j + 1>> ELSE <<i + 1, 0>>]
           /\ pc' = [pc EXCEPT ![r] = IF last THEN "iloop" ELSE "new"]
           /\ coords' = [coords EXCEPT ![r] = IF last THEN CoordsNew ELSE @]
           /\ trail' = [trail EXCEPT ![r] =
                            IF last THEN Mark(r, scratch[r].puzzle, CoordsNew, TRUE) ELSE @]
    /\ UNCHANGED <<self, ret, traced, input, calls, proc>>
    /\ Tick(r)

\* An iteration at a cell given in the input: only the cursor advances.
PassFixed(r) ==
    /\ pc[r] = "iloop"
    /\ coords[r] # None
    /\ LET i == Unwrap(coords[r])[1]
           j == Unwrap(coords[r])[2]
       IN  /\ scratch[r].obstructions[i][j] = None
           /\ coords' = [coords EXCEPT ![r] = Advance(@)]
           /\ trail' = [trail EXCEPT ![r] =
                            Mark(r, scratch[r].puzzle, Advance(coords[r]), TRUE)]
    /\ UNCHANGED <<self, scratch, pc, ret, at, traced, input, calls, proc>>
    /\ Tick(r)

\* An iteration at a mutable cell that finds a number: the cell takes it and
\* the cursor advances.
Place(r) ==
    /\ pc[r] = "iloop"
    /\ coords[r] # None
    /\ LET i == Unwrap(coords[r])[1]
           j == Unwrap(coords[r])[2]
           s == scratch[r]
           next_test == IF s.obstructions[i][j] # None THEN Candidate(s, i, j) ELSE 0
           s1 == Retract(s, i, j)
           s2 == Accept(s1, i, j, next_test)
       IN  /\ s.obstructions[i][j] # None
           /\ next_test <= N
           /\ IF \/ s.puzzle[i][j] # 0 /\ Overflowed(s1, s.puzzle[i][j], i, j)
                 \/ Overflowed(s2, next_test, i, j)
              THEN /\ pc' = [pc EXCEPT ![r] = "panic"]
                   /\ UNCHANGED <<scratch, coords, trail>>
              ELSE /\ scratch' = [scratch EXCEPT ![r] = s2]
                   /\ coords' = [coords EXCEPT ![r] = Advance(@)]
                   /\ trail' = [trail EXCEPT ![r] =
                            Mark(r, s2.puzzle, Advance(coords[r]), TRUE)]
                   /\ UNCHANGED pc
    /\ UNCHANGED <<self, ret, at, traced, input, calls, proc>>
    /\ Tick(r)

\* An iteration at a mutable cell that finds no number: the cell is left
\* unfilled and the backtrack loop is entered.
Exhaust(r) ==
    /\ pc[r] = "iloop"
    /\ coords[r] # None
    /\ LET i == Unwrap(coords[r])[1]
           j == Unwrap(coords[r])[2]
           s == scratch[r]
           s1 == Retract(s, i, j)
       IN  /\ s.obstructions[i][j] # None
           /\ Candidate(s, i, j) > N
           /\ IF s.puzzle[i][j] # 0 /\ Overflowed(s1, s.puzzle[i][j], i, j)
              THEN /\ pc' = [pc EXCEPT ![r] = "panic"]
                   /\ UNCHANGED scratch
              ELSE /\ scratch' = [scratch EXCEPT ![r] = s1]
                   /\ pc' = [pc EXCEPT ![r] = "backtrack"]
    /\ UNCHANGED <<self, coords, ret, at, traced, input, calls, proc, trail>>
    /\ Tick(r)

\* coords.retreat() moves onto a cell given in the input: it is skipped.
RetreatFixed(r) ==
    /\ pc[r] = "backtrack"
    /\ Retreat(coords[r]) # None
    /\ LET i2 == Unwrap(Retreat(coords[r]))[1]
           j2 == Unwrap(Retreat(coords[r]))[2]
       IN  scratch[r].obstructions[i2][j2] = None
    /\ coords' = [coords EXCEPT ![r] = Retreat(@)]
    /\ trail' = [trail EXCEPT ![r] =
                    Mark(r, scratch[r].puzzle, Retreat(coords[r]), FALSE)]
    /\ UNCHANGED <<self, scratch, pc, ret, at, traced, input, calls, proc>>
    /\ Tick(r)

\* coords.retreat() moves onto a mutable cell: the search resumes there,
\* unless its record is full, and then the cell is cleared and the retreat
\* goes on.
RetreatMutable(r) ==
    /\ pc[r] = "backtrack"
    /\ Retreat(coords[r]) # None
    /\ LET i2 == Unwrap(Retreat(coords[r]))[1]
           j2 == Unwrap(Retreat(coords[r]))[2]
           s == scratch[r]
       IN  /\ s.obstructions[i2][j2] # None
           /\ coords' = [coords EXCEPT ![r] = Retreat(@)]
           /\ IF ~IsFull(Unwrap(s.obstructions[i2][j2]))
              THEN /\ pc' = [pc EXCEPT ![r] = "iloop"]
                   /\ UNCHANGED scratch
              ELSE IF Overflowed(RemoveObstruction(s, i2, j2), s.puzzle[i2][j2], i2, j2)
              THEN /\ pc' = [pc EXCEPT ![r] = "panic"]
                   /\ UNCHANGED scratch
              ELSE /\ scratch' = [scratch EXCEPT ![r] =
                            [RemoveObstruction(s, i2, j2) EXCEPT !.puzzle[i2][j2] = 0]]
                   /\ UNCHANGED pc
           /\ trail' = [trail EXCEPT ![r] =
                    Mark(r, s.puzzle, Retreat(coords[r]), pc'[r] = "iloop")]
    /\ UNCHANGED <<self, ret, at, traced, input, calls, proc>>
    /\ Tick(r)

\* coords.retreat() finds no cell before (0, 0): solve() returns None.
RetreatOff(r) ==
    /\ pc[r] = "backtrack"
    /\ Retreat(coords[r]) = None
    /\ ret' = [ret EXCEPT ![r] = None]
    /\ pc' = [pc EXCEPT ![r] = "return"]
    /\ UNCHANGED <<self, scratch, coords, at, traced, input, calls, proc, trail>>
    /\ Tick(r)

\* The cursor is past (8, 8): solve() returns the grid.
Finish(r) ==
    /\ pc[r] = "iloop"
    /\ coords[r] = None
    /\ ret' = [ret EXCEPT ![r] = Some(Solution(scratch[r].puzzle))]
    /\ pc' = [pc EXCEPT ![r] = "return"]
    /\ UNCHANGED <<self, scratch, coords, at, traced, input, calls, proc, trail>>
    /\ Tick(r)

Step(r) ==
    \/ Call(r)
    \/ New(r)
    \/ PassFixed(r)
    \/ Place(r)
    \/ Exhaust(r)
    \/ RetreatFixed(r)
    \/ RetreatMutable(r)
    \/ RetreatOff(r)
    \/ Finish(r)

Next == \E r \in Runs : Step(r)

----------------------------------------------------------------------------
(* Inputs *)

\* The solution of test_solve01.
Solved01 == GridOf(<<
    <<4, 8, 3, 9, 2, 1, 6, 5, 7>>,
    <<9, 6, 7, 3, 4, 5, 8, 2, 1>>,
    <<2, 5, 1, 8, 7, 6, 4, 9, 3>>,
    <<5, 4, 8, 1, 3, 2, 9, 7, 6>>,
    <<7, 2, 9, 5, 6, 4, 1, 3, 8>>,
    <<1, 3, 6, 7, 9, 8, 2, 4, 5>>,
    <<3, 7, 2, 6, 8, 9, 5, 1, 4>>,
    <<8, 1, 4, 2, 5, 3, 7, 6, 9>>,
    <<6, 9, 5, 4, 1, 7, 3, 8, 2>> >>)

\* The puzzle of test_solve_ambiguous.
Ambiguous == GridOf(<<
    <<1, 4, 5, 3, 2, 7, 6, 9, 8>>,
    <<8, 3, 9, 6, 5, 4, 1, 2, 7>>,
    <<6, 7, 2, 9, 1, 8, 5, 4, 3>>,
    <<4, 9, 6, 0, 8, 5, 3, 7, 0>>,
    <<2, 1, 8, 4, 7, 3, 9, 5, 6>>,
    <<7, 5, 3, 0, 9, 6, 4, 8, 0>>,
    <<3, 6, 7, 5, 4, 2, 8, 1, 9>>,
    <<9, 8, 4, 7, 6, 1, 2, 3, 5>>,
    <<5, 2, 1, 8, 3, 9, 7, 6, 4>> >>)

\* The puzzle of test_solve01.
Puzzle01 == GridOf(<<
    <<0, 0, 3, 0, 2, 0, 6, 0, 0>>,
    <<9, 0, 0, 3, 0, 5, 0, 0, 1>>,
    <<0, 0, 1, 8, 0, 6, 4, 0, 0>>,
    <<0, 0, 8, 1, 0, 2, 9, 0, 0>>,
    <<7, 0, 0, 0, 0, 0, 0, 0, 8>>,
    <<0, 0, 6, 7, 0, 8, 2, 0, 0>>,
    <<0, 0, 2, 6, 0, 9, 5, 0, 0>>,
    <<8, 0, 0, 2, 0, 3, 0, 0, 9>>,
    <<0, 0, 5, 0, 1, 0, 3, 0, 0>> >>)

\* A grid with its rows from `from` on unfilled.
BlankRows(g, from) == [i \in Idx |-> [j \in Idx |-> IF i >= from THEN 0 ELSE g[i][j]]]

\* How many of BaseGrids the inputs are drawn around.
NumBases == 2

BaseGrids == <<Ambiguous, Solved01, BlankRows(Solved01, 7), BlankRows(Solved01, 8)>>

\* Every grid that differs from g in at most one cell (any value 0..9 there).
OneEdit(g) == {[g EXCEPT ![i][j] = v] : i \in Idx, j \in Idx, v \in 0 .. N}

Inputs == UNION {OneEdit(BaseGrids[k]) : k \in 1 .. NumBases} \cup {Puzzle01}

ZeroGrid == [i \in Idx |-> [j \in Idx |-> 0]]

Unallocated == [puzzle |-> ZeroGrid, obstructions |-> [i \in Idx |-> [j \in Idx |-> None]]]

NoInput == [kind |-> "none"]

\* The command is not run.
NoProc == [pc |-> "none"]

\* solve() is about to be called by the runs of `callers`, run r on the
\* Puzzle ps[r]; no conversion is called.
Start(ps, callers, tr) ==
    /\ self = ps
    /\ scratch = [r \in Runs |-> Unallocated]
    /\ coords = [r \in Runs |-> None]
    /\ pc = [r \in Runs |-> IF r \in callers THEN "call" ELSE "idle"]
    /\ ret = [r \in Runs |-> None]
    /\ at = [r \in Runs |-> <<0, 0>>]
    /\ steps = [r \in Runs |-> 0]
    /\ traced = tr
    /\ trail = [r \in Runs |-> <<>>]
    /\ input = NoInput
    /\ calls = <<>>
    /\ proc = NoProc

\* One call of solve(), by run 1.
Init == \E p \in Inputs : Start([r \in Runs |-> p], {1}, FALSE)

Spec == Init /\ [][Next]_vars

----------------------------------------------------------------------------
(* What a Sudoku solution is, stated without the solver *)

Cells == Idx \X Idx

SameBox(c, d) == (c[1] \div BOX = d[1] \div BOX) /\ (c[2] \div BOX = d[2] \div BOX)

\* Two different cells of one row, one column or one box.
ArePeers(c, d) == c # d /\ (c[1] = d[1] \/ c[2] = d[2] \/ SameBox(c, d))

Rows == {{<<i, j>> : j \in Idx} : i \in Idx}
Cols == {{<<i, j>> : i \in Idx} : j \in Idx}
Boxes == {{c \in Cells : SameBox(c, <<bi, bj>>)} : bi \in {0, BOX, 2 * BOX}, bj \in {0, BOX, 2 * BOX}}
Units == Rows \cup Cols \cup Boxes

\* Every cell holds a digit and every unit holds each digit exactly once.
ValidGrid(g) ==
    /\ \A c \in Cells : g[c[1]][c[2]] \in 1 .. N
    /\ \A u \in Units : \A d \in 1 .. N :
          Cardinality({c \in u : g[c[1]][c[2]] = d}) = 1

\* g keeps every cell that p gives.
Extends(g, p) == \A c \in Cells : p[c[1]][c[2]] # 0 => g[c[1]][c[2]] = p[c[1]][c[2]]

UnfilledCells(p) == {c \in Cells : p[c[1]][c[2]] = 0}

\* The grids that fill the unfilled cells `todo` of g with digits no peer
\* holds, and are valid.
RECURSIVE Fillings(_, _)
Fillings(g, todo) ==
    IF todo = {} THEN (IF ValidGrid(g) THEN {g} ELSE {})
    ELSE LET c == CHOOSE x \in todo : \A y \in todo :
                        x[1] < y[1] \/ (x[1] = y[1] /\ x[2] <= y[2])
             used == {g[d[1]][d[2]] : d \in {e \in Cells : ArePeers(c, e)}}
         IN  UNION {Fillings([g EXCEPT ![c[1]][c[2]] = v], todo \ {c}) :
                        v \in (1 .. N) \ used}

\* Every valid grid that extends p.
Completions(p) == Fillings(p, UnfilledCells(p))

Returned(r) == pc[r] = "return"

----------------------------------------------------------------------------
(* The claims about solve() *)

\* C1: whenever solve() returns Some(s), for any Puzzle at all, every cell
\* of s is in 1..=9 and every row, column and box of s holds each digit once.
C1_SolutionValid ==
    \A r \in Runs : (Returned(r) /\ ret[r] # None) => ValidGrid(Unwrap(ret[r]))

\* C2: whenever the Puzzle has no legal completion (its given cells may
\* already conflict), solve() returns None: no panic, no grid.
C2_UnsolvableIsNone ==
    \A r \in Runs :
        /\ pc[r] # "panic"
        /\ (Returned(r) /\ Completions(self[r]) = {}) => ret[r] = None

\* C3: whenever the given cells can be extended to a valid grid, solve()
\* returns Some(s) with s one of the valid grids that extend them (so s has no
\* unfilled cell, and is the completion when there is only one).
C3_Complete ==
    \A r \in Runs :
        (Returned(r) /\ Completions(self[r]) # {}) =>
            /\ ret[r] # None
            /\ Unwrap(ret[r]) \in Completions(self[r])
            /\ \A c \in Cells : Unwrap(ret[r])[c[1]][c[2]] # 0

\* solve() returned on a Puzzle that has several completions.
C3_Witness ==
    /\ Returned(1)
    /\ Cardinality(Completions(self[1])) >= 2
    /\ ret[1] # None

\* A cell given in the input holds its input value in the working grid and
\* in the Solution returned.
GivenKept(r) ==
    /\ pc[r] \in {"new", "iloop", "backtrack", "return", "panic"} =>
            Extends(scratch[r].puzzle, self[r])
    /\ (Returned(r) /\ ret[r] # None) => Extends(Unwrap(ret[r]), self[r])

\* A step leaves the input Puzzle alone and writes the working grid at cells
\* unfilled in the input only.
WritesUnfilledOnly(r) ==
    /\ self'[r] = self[r]
    /\ pc[r] \in {"new", "iloop", "backtrack"} =>
            \A c \in Cells :
                scratch'[r].puzzle[c[1]][c[2]] # scratch[r].puzzle[c[1]][c[2]]
                    => self[r][c[1]][c[2]] = 0

\* C4: a cell given in the input holds its input value in every state of
\* solve() and in the Solution returned; every write to the working grid is
\* to a cell unfilled in the input; the input Puzzle never changes.
C4_InputKept == [][\A r \in Runs : GivenKept(r)' /\ WritesUnfilledOnly(r)]_vars

\* The search is back, after a retreat, at an unfilled cell of the input that
\* holds a number, beside given cells.
C4_Witness ==
    /\ pc[1] = "iloop" /\ coords[1] # None
    /\ self[1][Unwrap(coords[1])[1]][Unwrap(coords[1])[2]] = 0
    /\ scratch[1].puzzle[Unwrap(coords[1])[1]][Unwrap(coords[1])[2]] # 0
    /\ \E c \in Cells : self[1][c[1]][c[2]] # 0

\* solve() returns in one of two ways: Some(grid) with the cursor past (8, 8),
\* or None with the cursor at (0, 0), where retreat() found no cell before it.
TwoWays(r) ==
    /\ pc[r] # "panic"
    /\ Returned(r) =>
          \/ ret[r] # None /\ coords[r] = None
          \/ ret[r] = None /\ coords[r] = Some(<<0, 0>>)

SameSearchState(e, f) == e.grid = f.grid /\ e.coords = f.coords

\* The (grid, cursor) the cursor was last assigned with is none of the earlier.
NoRevisit(r) ==
    \A k \in 1 .. Len(trail[r]) - 1 :
        ~SameSearchState(trail[r][k], trail[r][Len(trail[r])])

\* The same, among the (grid, cursor) an iteration of the search loop starts with.
NoRevisitAtLoopHead(r) ==
    (trail[r] # <<>> /\ trail[r][Len(trail[r])].head) =>
        \A k \in 1 .. Len(trail[r]) - 1 :
            trail[r][k].head => ~SameSearchState(trail[r][k], trail[r][Len(trail[r])])

AllReturned == \A r \in Runs : pc[r] \in {"idle", "return"}

\* C5 as claimed, without its liveness part: solve() ends in one of the two
\* ways and no (grid, cursor) is ever visited twice.
C5_NeverRevisits == \A r \in Runs : TwoWays(r) /\ NoRevisit(r)

\* C5, amended: solve() terminates, in one of the two ways, and no iteration
\* of the search loop starts with a (grid, cursor) an earlier one started with.
C5_Terminates ==
    /\ <>AllReturned
    /\ [](\A r \in Runs : TwoWays(r) /\ NoRevisitAtLoopHead(r))

\* solve() returned None after retreating before (0, 0).
C5_Witness ==
    /\ Returned(1) /\ ret[1] = None
    /\ \E k \in 1 .. Len(trail[1]) : ~trail[1][k].head

\* The inputs of the traced runs: the puzzle of test_solve01, and the puzzle
\* of test_solve_ambiguous with at most one cell of its row 3 changed.
TracedInputs == {[Ambiguous EXCEPT ![3][j] = v] : j \in Idx, v \in 0 .. N} \cup {Puzzle01}

TracedInit == \E p \in TracedInputs : Start([r \in Runs |-> p], {1}, TRUE)

\* solve() under the scheduling of a sequential program: a step that can be
\* taken is taken.
FairSpec == TracedInit /\ [][Next]_vars /\ WF_vars(Next)

----------------------------------------------------------------------------
(* Two calls of solve() *)

\* The puzzle of test_solve_ambiguous, and the same with 1 given twice in
\* row 3, which has no solution.
TwoInputs == {Ambiguous, [Ambiguous EXCEPT ![3][0] = 1]}

\* Two calls of solve(), on equal or different Puzzles, whose steps interleave
\* in any order.
TwoInit == \E p \in TwoInputs, q \in TwoInputs : Start([r \in Runs |-> IF r = 1 THEN p ELSE q], Runs, FALSE)

SpecTwo == TwoInit /\ [][Next]_vars

\* What run r holds.
Local(r) == <<scratch[r], coords[r], pc[r], ret[r], at[r]>>

\* Runs on equal Puzzles that have taken as many steps hold the same.
Lockstep ==
    \A q, r \in Runs :
        (self[q] = self[r] /\ steps[q] = steps[r]) => Local(q) = Local(r)

\* A step is taken by one run and leaves what the others hold as it is.
OneRunSteps ==
    \E r \in Runs : \A q \in Runs \ {r} :
        /\ <<scratch[q], coords[q], pc[q], ret[q], at[q], self[q]>>' =
               <<scratch[q], coords[q], pc[q], ret[q], at[q], self[q]>>
        /\ steps'[q] = steps[q]

----------------------------------------------------------------------------
(* TryIntoPuzzleError, Result *)

NumTooBig(v) == <<"NumTooBig", v>>
BadRowSize == <<"BadRowSize">>
BadGridSize == <<"BadGridSize">>

Ok(x) == [ok |-> TRUE, val |-> x]
Err(e) == [ok |-> FALSE, err |-> e]

----------------------------------------------------------------------------
(* TryFrom<[[u8; 9]; 9]>, TryFrom<&[T]>, TryFrom<Vec<T>> *)

\* The cells in the order `for row in &value`, `for &cell in row` reaches them.
RowMajor == [k \in 1 .. N * N |-> <<(k - 1) \div N, (k - 1) % N>>]

\* The cells column after column.
ColumnMajor == [k \in 1 .. N * N |-> <<(k - 1) % N, (k - 1) \div N>>]

\* The value of the first cell above 9 that the order meets, if any.
FirstAbove9(value, order) ==
    LET big == {k \in 1 .. N * N : value[order[k][1]][order[k][2]] > 9}
        k1 == CHOOSE k \in big : \A m \in big : k <= m
    IN  IF big = {} THEN None ELSE Some(value[order[k1][1]][order[k1][2]])

\* TryFromArray with the loops exchanged: the columns are scanned in turn.
TryFromArrayByColumns(value) ==
    IF FirstAbove9(value, ColumnMajor) # None
    THEN Err(NumTooBig(Unwrap(FirstAbove9(value, ColumnMajor))))
    ELSE Ok(value)

TryFromArray(value) ==
    IF FirstAbove9(value, RowMajor) # None
    THEN Err(NumTooBig(Unwrap(FirstAbove9(value, RowMajor))))
    ELSE Ok(value)

\* TryFromSlice with the length of the slice tested before its rows.
TryFromSliceGridFirst(value) ==
    IF Len(value) # N THEN Err(BadGridSize)
    ELSE IF \E k \in 1 .. Len(value) : Len(value[k]) # N THEN Err(BadRowSize)
    ELSE TryFromArray(GridOf(value))

\* value is a sequence of rows, each a sequence of u8.
TryFromSlice(value) ==
    IF \E k \in 1 .. Len(value) : Len(value[k]) # N THEN Err(BadRowSize)
    ELSE IF Len(value) # N THEN Err(BadGridSize)
    ELSE TryFromArray(GridOf(value))

TryFromVec(v) == TryFromSlice(v)

----------------------------------------------------------------------------
(* FromStr. A string is a sequence of characters, a character a string of
   length one. *)

Digits == <<"0", "1", "2", "3", "4", "5", "6", "7", "8", "9">>

\* char::to_digit(10)
ToDigit(c) ==
    IF \E d \in 1 .. Len(Digits) : Digits[d] = c
    THEN Some((CHOOSE d \in 1 .. Len(Digits) : Digits[d] = c) - 1)
    ELSE None

\* char::is_whitespace, on the characters that occur in the inputs
Whitespace == {" ", "\t", "\n", "\r", "\f"}

IsWhitespace(c) == c \in Whitespace

\* str::lines: the lines end at "\n" or "\r\n", the ending is no part of the
\* line, and nothing after the last ending is no line.
Lines(s) ==
    LET nl == {k \in 1 .. Len(s) : s[k] = "\n"}
        starts == {a \in {1} \cup {k + 1 : k \in nl} : a <= Len(s)}
        nth(n) == CHOOSE a \in starts : Cardinality({b \in starts : b <= a}) = n
        stop(a) == IF \E k \in nl : k >= a
                   THEN CHOOSE k \in nl : k >= a /\ \A m \in nl : m >= a => k <= m
                   ELSE Len(s) + 1
        line(a) == IF stop(a) <= Len(s) /\ stop(a) - 1 >= a /\ s[stop(a) - 1] = "\r"
                   THEN SubSeq(s, a, stop(a) - 2)
                   ELSE SubSeq(s, a, stop(a) - 1)
    IN  [n \in 1 .. Cardinality(starts) |-> line(nth(n))]

\* Row whose `else if !c.is_whitespace()` branch is missing: a character that
\* is no digit yields no cell.
RowOfDigits(line) ==
    LET kept == SelectSeq(line, LAMBDA c : ToDigit(c) # None)
    IN  [k \in 1 .. Len(kept) |-> Unwrap(ToDigit(kept[k]))]

\* The row that the loop over line.chars() builds.
Row(line) ==
    LET kept == SelectSeq(line, LAMBDA c : ToDigit(c) # None \/ ~IsWhitespace(c))
    IN  [k \in 1 .. Len(kept) |->
            IF ToDigit(kept[k]) # None THEN Unwrap(ToDigit(kept[k])) ELSE 0]

FromStr(s) ==
    LET lines == Lines(s)
        rows == [n \in 1 .. Len(lines) |-> Row(lines[n])]
        grid == SelectSeq(rows, LAMBDA row : Len(row) > 0)
    IN  TryFromVec(grid)

----------------------------------------------------------------------------
(* Display for Puzzle *)

DIVIDER == <<"+", "-", "-", "-", "-", "-", "+", "-", "-", "-", "-", "-",
             "+", "-", "-", "-", "-", "-", "+">>

\* The sequences of ss, from the k-th on, one after the other.
RECURSIVE FlattenFrom(_, _)
FlattenFrom(ss, k) == IF k > Len(ss) THEN <<>> ELSE ss[k] \o FlattenFrom(ss, k + 1)

Flatten(ss) == FlattenFrom(ss, 1)

\* write!(f, "{c}") for a u8
FmtU8(c) ==
    IF c < 10 THEN <<Digits[c + 1]>>
    ELSE IF c < 100 THEN <<Digits[(c \div 10) + 1], Digits[(c % 10) + 1]>>
    ELSE <<Digits[(c \div 100) + 1], Digits[((c \div 10) % 10) + 1], Digits[(c % 10) + 1]>>

\* WriteCell writing an unfilled cell as a blank in both forms.
WriteCellBlank(c, alternate) ==
    IF c = 0 THEN <<" ">> ELSE FmtU8(c)

\* What is written for the cell value c.
WriteCell(c, alternate) ==
    IF alternate /\ c = 0 THEN <<" ">> ELSE FmtU8(c)

\* format!("{}", p) where alternate is false, format!("{:#}", p) where true.
DisplayPuzzle(p, alternate) ==
    IF alternate
    THEN Flatten([y \in 1 .. N |->
            (IF (y - 1) % BOX = 0 THEN DIVIDER \o <<"\n">> ELSE <<>>)
            \o Flatten([x \in 1 .. N |->
                    <<IF (x - 1) % BOX = 0 THEN "|" ELSE " ">>
                    \o WriteCell(p[y - 1][x - 1], alternate)])
            \o <<"|", "\n">>])
         \o DIVIDER
    ELSE Flatten([y \in 1 .. N |->
            (IF y - 1 > 0 THEN <<"\n">> ELSE <<>>)
            \o Flatten([x \in 1 .. N |-> WriteCell(p[y - 1][x - 1], alternate)])])

----------------------------------------------------------------------------
(* The conversions, called on values of every shape *)

MaxRows == 10

MaxRowLen == 10

MaxCalls == 4

\* The rows of a grid, as a slice of rows.
RowsOf(g) == [y \in 1 .. N |-> [x \in 1 .. N |-> g[y - 1][x - 1]]]

\* The puzzle of test_solve01 with one cell set to 9 or 10 and one of four
\* cells set to 0, 11 or 255.
ArrayInputs ==
    {[[Puzzle01 EXCEPT ![c[1]][c[2]] = v] EXCEPT ![d[1]][d[2]] = w] :
        c \in Cells, d \in {<<0, 8>>, <<1, 0>>, <<4, 4>>, <<8, 8>>},
        v \in {9, 10}, w \in {0, 11, U8MAX}}

\* row cut, or padded with 0, to len cells.
Resize(row, len) == [x \in 1 .. len |-> IF x <= Len(row) THEN row[x] ELSE 0]

\* n rows, taken from the puzzle of test_solve01 over and over, with row k cut
\* or padded to len cells and the first cell of row m set to v.
Shaped(n, k, len, m, v) ==
    [y \in 1 .. n |->
        LET row == RowsOf(Puzzle01)[((y - 1) % N) + 1]
            sized == IF y = k THEN Resize(row, len) ELSE row
        IN  IF y = m /\ Len(sized) > 0 THEN [sized EXCEPT ![1] = v] ELSE sized]

RowsInputs ==
    {Shaped(n, k, len, m, v) :
        n \in 0 .. MaxRows, k \in {0, 1, 5, MaxRows}, len \in 0 .. MaxRowLen,
        m \in {0, 1, N, MaxRows}, v \in {0, 10}}

\* How a grid is written down: the character of an unfilled cell, what
\* separates the cells and the groups of three cells, the line ending, whether
\* a blank line follows every third row, whether the last line is ended.
Styles ==
    [zero : {"0", ".", "_"}, sep : {<<>>, <<" ">>}, gap : {<<>>, <<" ">>, <<"\t">>},
     eol : {<<"\n">>, <<"\r", "\n">>}, blank : BOOLEAN, final : BOOLEAN]

WriteRow(row, st) ==
    Flatten([x \in 1 .. Len(row) |->
        (IF x > 1 THEN st.sep ELSE <<>>)
        \o (IF x > 1 /\ (x - 1) % BOX = 0 THEN st.gap ELSE <<>>)
        \o <<IF row[x] = 0 THEN st.zero ELSE Digits[row[x] + 1]>>])

Write(rows, st) ==
    Flatten([y \in 1 .. Len(rows) |->
        (IF y > 1 THEN st.eol ELSE <<>>)
        \o (IF y > 1 /\ (y - 1) % BOX = 0 /\ st.blank THEN st.eol ELSE <<>>)
        \o WriteRow(rows[y], st)])
    \o (IF st.final THEN st.eol ELSE <<>>)

\* The rows that are written down: two puzzles of the tests, and grids of 0,
\* 8, 9 or 10 rows with one row of 0, 8 or 10 cells.
WrittenRows ==
    {RowsOf(Puzzle01), RowsOf(Ambiguous)}
    \cup {Shaped(n, k, len, 0, 0) : n \in {0, N - 1, N, MaxRows}, k \in {1, 5}, len \in {0, N - 1, MaxRowLen}}

\* text with one character taken out, or one character put in.
OneCharEdits(text) ==
    {SubSeq(text, 1, k - 1) \o SubSeq(text, k + 1, Len(text)) : k \in 1 .. Len(text)}
    \cup {SubSeq(text, 1, k) \o <<c>> \o SubSeq(text, k + 1, Len(text)) :
            k \in 0 .. Len(text), c \in {"5", ".", "x", " ", "\n", "\r"}}

ConvInputs ==
    {[kind |-> "array", value |-> a, rows |-> None] : a \in ArrayInputs}
    \cup {[kind |-> "rows", value |-> v, rows |-> None] : v \in RowsInputs}
    \cup {[kind |-> "str", value |-> Write(rows, st), rows |-> Some(rows)] :
            rows \in WrittenRows, st \in Styles}
    \cup {[kind |-> "str", value |-> t, rows |-> None] :
            t \in OneCharEdits(DisplayPuzzle(Puzzle01, FALSE))}

\* No call of solve(); a value is at hand to convert.
ConvInit ==
    /\ self = [r \in Runs |-> ZeroGrid]
    /\ scratch = [r \in Runs |-> Unallocated]
    /\ coords = [r \in Runs |-> None]
    /\ pc = [r \in Runs |-> "idle"]
    /\ ret = [r \in Runs |-> None]
    /\ at = [r \in Runs |-> <<0, 0>>]
    /\ steps = [r \in Runs |-> 0]
    /\ traced = FALSE
    /\ trail = [r \in Runs |-> <<>>]
    /\ input \in ConvInputs
    /\ calls = <<>>
    /\ proc = NoProc

\* The conversion api was called on arg and returned res.
Called(api, arg, res) ==
    /\ calls' = Append(calls, [api |-> api, arg |-> arg, res |-> res])
    /\ UNCHANGED <<self, scratch, coords, pc, ret, at, steps, traced, trail, input, proc>>

Last == calls[Len(calls)]

\* Puzzle::try_from(value) for an array
TryFromArrayCall ==
    /\ calls = <<>> /\ input.kind = "array"
    /\ Called("array", input.value, TryFromArray(input.value))

\* Puzzle::try_from(&value[..])
TryFromSliceCall ==
    /\ calls = <<>> /\ input.kind = "rows"
    /\ Called("slice", input.value, TryFromSlice(input.value))

\* Puzzle::try_from(value) for a Vec
TryFromVecCall ==
    /\ calls = <<>> /\ input.kind = "rows"
    /\ Called("vec", input.value, TryFromVec(input.value))

\* s.parse::<Puzzle>(), s the string at hand or the one the last call rendered
FromStrCall ==
    /\ Len(calls) < MaxCalls
    /\ IF calls = <<>> THEN input.kind = "str" ELSE Last.api = "display"
    /\ LET s == IF calls = <<>> THEN input.value ELSE Last.res
       IN  Called("str", s, FromStr(s))

\* format!("{}", p) or format!("{:#}", p), p the Puzzle the last call produced
DisplayCall ==
    /\ Len(calls) < MaxCalls
    /\ calls # <<>> /\ Last.api # "display" /\ Last.res.ok
    /\ \E alternate \in BOOLEAN :
          Called("display", [puzzle |-> Last.res.val, alternate |-> alternate],
                 DisplayPuzzle(Last.res.val, alternate))

ConvNext ==
    \/ TryFromArrayCall
    \/ TryFromSliceCall
    \/ TryFromVecCall
    \/ FromStrCall
    \/ DisplayCall

SpecConv == ConvInit /\ [][ConvNext]_vars

----------------------------------------------------------------------------
(* The claims about the conversions *)

CallsOf(apis) == {k \in 1 .. Len(calls) : calls[k].api \in apis}

Before(c, d) == c[1] < d[1] \/ (c[1] = d[1] /\ c[2] < d[2])

TooBig(a) == {c \in Cells : a[c[1]][c[2]] > 9}

\* C7: Puzzle::try_from on a 9x9 array returns Ok, of a Puzzle with the cells
\* of the array, iff every cell is <= 9; otherwise it returns Err(NumTooBig(v)),
\* v the value of the first cell above 9 in row-major order, and no Puzzle.
C7_CellValidation ==
    \A k \in CallsOf({"array"}) :
        LET a == calls[k].arg
            r == calls[k].res
        IN  /\ r.ok <=> TooBig(a) = {}
            /\ r.ok => r = Ok(a)
            /\ ~r.ok =>
                  /\ DOMAIN r = {"ok", "err"}
                  /\ \E c \in TooBig(a) :
                        /\ \A d \in TooBig(a) \ {c} : Before(c, d)
                        /\ r.err = NumTooBig(a[c[1]][c[2]])

\* try_from was called on an array with two cells above 9 of different
\* values, the first by rows being below and to the left of the other.
C7_Witness ==
    \E k \in CallsOf({"array"}) : \E c, d \in TooBig(calls[k].arg) :
        /\ Before(c, d) /\ d[2] < c[2]
        /\ calls[k].arg[c[1]][c[2]] # calls[k].arg[d[1]][d[2]]

BadRows(v) == {k \in 1 .. Len(v) : Len(v[k]) # 9}

BigCells(v) == {c \in (1 .. Len(v)) \X (1 .. MaxRowLen) : c[2] <= Len(v[c[1]]) /\ v[c[1]][c[2]] > 9}

\* C8: Puzzle::try_from on a slice or a Vec of rows returns BadRowSize if a
\* row is not 9 long, however many rows there are and whatever the cells
\* hold; otherwise BadGridSize if there are not 9 rows, whatever the cells
\* hold; otherwise NumTooBig if a cell is above 9; otherwise Ok with the same
\* cells.
C8_Precedence ==
    \A k \in CallsOf({"slice", "vec"}) :
        LET v == calls[k].arg
            r == calls[k].res
        IN  IF BadRows(v) # {} THEN r = Err(BadRowSize)
            ELSE IF Len(v) # 9 THEN r = Err(BadGridSize)
            ELSE IF BigCells(v) # {}
            THEN ~r.ok /\ \E c \in BigCells(v) : r.err = NumTooBig(v[c[1]][c[2]])
            ELSE r.ok /\ \A i \in Idx : \A j \in Idx : r.val[i][j] = v[i + 1][j + 1]

\* try_from was called on rows that fail all three tests: a row of another
\* length, 10 rows, a cell above 9.
C8_Witness ==
    \E k \in CallsOf({"slice", "vec"}) :
        /\ BadRows(calls[k].arg) # {}
        /\ Len(calls[k].arg) > 9
        /\ BigCells(calls[k].arg) # {}

CellValue(c) ==
    CASE c = "1" -> 1 [] c = "2" -> 2 [] c = "3" -> 3 [] c = "4" -> 4 [] c = "5" -> 5
      [] c = "6" -> 6 [] c = "7" -> 7 [] c = "8" -> 8 [] c = "9" -> 9 [] OTHER -> 0

\* The positions of t, in order, whose character is in (keep) or not in
\* (~keep) the set chars.
Positions(t, chars, keep) ==
    SelectSeq([k \in 1 .. Len(t) |-> k], LAMBDA k : (t[k] \in chars) = keep)

\* The rows of cells that the text t denotes: line after line (line n lies
\* between the (n-1)-th and the n-th "\n"), without the lines that have no
\* cell.
Denoted(t) ==
    LET ends == Positions(t, {"\n"}, TRUE) \o <<Len(t) + 1>>
        cells == Positions(t, Whitespace, FALSE)
        on(n) == SelectSeq(cells, LAMBDA k : k < ends[n] /\ (n > 1 => k > ends[n - 1]))
        values(ks) == [x \in 1 .. Len(ks) |-> CellValue(t[ks[x]])]
    IN  SelectSeq([n \in 1 .. Len(ends) |-> values(on(n))], LAMBDA row : Len(row) > 0)

\* C9: parsing a string returns what the validation of a slice returns for
\* the rows the string denotes (per line, a digit is a cell of its value, any
\* other character that is no whitespace a cell of 0, whitespace nothing, a
\* line without cells no row); so every notation of a grid parses to that
\* grid, and the only errors are BadRowSize and BadGridSize.
C9_Parsing ==
    \A k \in CallsOf({"str"}) :
        LET t == calls[k].arg
            r == calls[k].res
        IN  /\ r = TryFromSlice(Denoted(t))
            /\ ~r.ok => r.err \in {BadRowSize, BadGridSize}
            /\ (k = 1 /\ input.rows # None) =>
                  r = TryFromSlice(SelectSeq(Unwrap(input.rows), LAMBDA row : Len(row) > 0))
            /\ (k = 1 /\ input.rows = Some(RowsOf(Puzzle01))) => r = Ok(Puzzle01)

\* The puzzle of test_solve01, written with "." for the unfilled cells, the
\* cells apart, the groups of three further apart, a blank line after every
\* third row and "\r\n" line endings, was parsed.
C9_Witness ==
    /\ input.kind = "str"
    /\ input.value = Write(RowsOf(Puzzle01),
            [zero |-> ".", sep |-> <<" ">>, gap |-> <<" ">>, eol |-> <<"\r", "\n">>,
             blank |-> TRUE, final |-> TRUE])
    /\ calls # <<>> /\ calls[1].res.ok

\* The compact rendering of p: 9 lines of 9 digits, "0" for an unfilled cell,
\* "\n" between the lines and none at the end.
IsCompactOf(t, p) ==
    /\ Len(t) = 89
    /\ \A k \in 1 .. Len(t) :
          IF k % 10 = 0 THEN t[k] = "\n"
          ELSE /\ t[k] \in {"0", "1", "2", "3", "4", "5", "6", "7", "8", "9"}
               /\ CellValue(t[k]) = p[(k - 1) \div 10][(k - 1) % 10]

\* C10: the compact rendering of a Puzzle p is 9 lines of 9 digits joined by
\* newlines; parsing it returns Ok of a Puzzle equal to p, and rendering that
\* Puzzle compactly gives the same text again.
C10_RoundTrip ==
    \A k \in CallsOf({"display"}) : ~calls[k].arg.alternate =>
        /\ IsCompactOf(calls[k].res, calls[k].arg.puzzle)
        /\ k + 1 <= Len(calls) => calls[k + 1].res = Ok(calls[k].arg.puzzle)
        /\ (k + 2 <= Len(calls) /\ ~calls[k + 2].arg.alternate) =>
              calls[k + 2].res = calls[k].res

\* A Puzzle with unfilled cells was rendered compactly, the text parsed and
\* the Puzzle parsed rendered compactly.
C10_Witness ==
    \E k \in CallsOf({"display"}) :
        /\ ~calls[k].arg.alternate
        /\ \E c \in Cells : calls[k].arg.puzzle[c[1]][c[2]] = 0
        /\ k + 2 <= Len(calls)
        /\ calls[k + 1].api = "str" /\ calls[k + 2].api = "display"
        /\ ~calls[k + 2].arg.alternate

----------------------------------------------------------------------------
(* Display for Solution *)

\* format!("{}", s) where alternate is false, format!("{:#}", s) where true.
DisplaySolution(s, alternate) ==
    IF alternate
    THEN Flatten([y \in 1 .. N |->
            (IF (y - 1) % BOX = 0 THEN DIVIDER \o <<"\n">> ELSE <<>>)
            \o Flatten([x \in 1 .. N |->
                    <<IF (x - 1) % BOX = 0 THEN "|" ELSE " ">> \o FmtU8(s[y - 1][x - 1])])
            \o <<"|", "\n">>])
         \o DIVIDER
    ELSE Flatten([y \in 1 .. N |->
            (IF y - 1 > 0 THEN <<"\n">> ELSE <<>>)
            \o Flatten([x \in 1 .. N |-> FmtU8(s[y - 1][x - 1])])])

----------------------------------------------------------------------------
(* The command (src/src/main.rs): Command::run of Command::Run *)

\* "No solution"
NoSolution == <<"N", "o", " ", "s", "o", "l", "u", "t", "i", "o", "n">>

\* "Error reading input"
ErrorReadingInput ==
    <<"E", "r", "r", "o", "r", " ", "r", "e", "a", "d", "i", "n", "g", " ",
      "i", "n", "p", "u", "t">>

\* "Invalid input"
InvalidInput == <<"I", "n", "v", "a", "l", "i", "d", " ", "i", "n", "p", "u", "t">>

\* println!, eprintln!: the text and a newline
Println(text) == text \o <<"\n">>

\* What the process has done when it exits.
Exited(pretty, stdout, stderr, status) ==
    [pc |-> "exit", pretty |-> pretty, stdout |-> stdout, stderr |-> stderr,
     status |-> status]

\* run() returns Err(e.context(context)) and so does main: the error is
\* reported on standard error (the report starts with "Error: " and the
\* context; the causes that follow are left out) and the status is failure.
Failed(pretty, context) ==
    Exited(pretty, <<>>, Println(<<"E", "r", "r", "o", "r", ":", " ">> \o context), "FAILURE")

\* Outcome writing "No solution" with println!.
OutcomeOnStdout(result, pretty) ==
    IF result # None
    THEN Exited(pretty, Println(DisplaySolution(Unwrap(result), pretty)), <<>>, "SUCCESS")
    ELSE Exited(pretty, Println(NoSolution), <<>>, "FAILURE")

\* The arms of `match puzzle.solve()`.
Outcome(result, pretty) ==
    IF result # None
    THEN Exited(pretty, Println(DisplaySolution(Unwrap(result), pretty)), <<>>, "SUCCESS")
    ELSE Exited(pretty, <<>>, Println(NoSolution), "FAILURE")

\* infile.read_to_string()?.parse::<Puzzle>()?, and on success the call of
\* solve() on the Puzzle parsed, by run 1.
MainParse ==
    /\ proc.pc = "run"
    /\ IF input.kind = "unreadable"
       THEN /\ proc' = Failed(proc.pretty, ErrorReadingInput)
            /\ UNCHANGED <<self, pc>>
       ELSE IF ~FromStr(input.value).ok
       THEN /\ proc' = Failed(proc.pretty, InvalidInput)
            /\ UNCHANGED <<self, pc>>
       ELSE /\ proc' = [proc EXCEPT !.pc = "solve"]
            /\ self' = [self EXCEPT ![1] = FromStr(input.value).val]
            /\ pc' = [pc EXCEPT ![1] = "call"]
    /\ UNCHANGED <<scratch, coords, ret, at, steps, traced, trail, input, calls>>

\* solve() has returned; the result is reported and run() returns the status.
MainReport ==
    /\ proc.pc = "solve" /\ pc[1] = "return"
    /\ proc' = Outcome(ret[1], proc.pretty)
    /\ UNCHANGED <<self, scratch, coords, pc, ret, at, steps, traced, trail, input, calls>>

MainNext ==
    \/ MainParse
    \/ \E r \in Runs : Step(r)
    \/ MainReport

\* What is read: the puzzles of test_solve01 and test_solve_ambiguous and one
\* without solution, each in the compact notation and in that of
\* crates/cli/tests/cli.rs; no text; a bordered rendering; or nothing, the
\* file being unreadable.
MainInputs ==
    {[kind |-> "stdin", value |-> Write(RowsOf(g), st), rows |-> Some(RowsOf(g))] :
        g \in TwoInputs \cup {Puzzle01},
        st \in {[zero |-> "0", sep |-> <<>>, gap |-> <<>>, eol |-> <<"\n">>,
                 blank |-> FALSE, final |-> TRUE],
                [zero |-> ".", sep |-> <<" ">>, gap |-> <<>>, eol |-> <<"\n">>,
                 blank |-> TRUE, final |-> TRUE]}}
    \cup {[kind |-> "stdin", value |-> t, rows |-> None] :
            t \in {<<>>, DisplayPuzzle(Puzzle01, TRUE)}}
    \cup {[kind |-> "unreadable", value |-> <<>>, rows |-> None]}

\* The command is started, with or without --pretty.
MainInit ==
    /\ self = [r \in Runs |-> ZeroGrid]
    /\ scratch = [r \in Runs |-> Unallocated]
    /\ coords = [r \in Runs |-> None]
    /\ pc = [r \in Runs |-> "idle"]
    /\ ret = [r \in Runs |-> None]
    /\ at = [r \in Runs |-> <<0, 0>>]
    /\ steps = [r \in Runs |-> 0]
    /\ traced = FALSE
    /\ trail = [r \in Runs |-> <<>>]
    /\ input \in MainInputs
    /\ calls = <<>>
    /\ \E pretty \in BOOLEAN :
          proc = [pc |-> "run", pretty |-> pretty, stdout |-> <<>>, stderr |-> <<>>,
                  status |-> "none"]

SpecMain == MainInit /\ [][MainNext]_vars

\* The bordered rendering of g: 13 lines of 19 characters, every fourth a
\* divider, the others a row with "|" before every third cell and a blank
\* before the others, "\n" between the lines and none at the end.
IsBorderedOf(t, g) ==
    /\ Len(t) = 259
    /\ \A k \in 1 .. Len(t) :
          LET l == (k - 1) \div 20
              c == (k - 1) % 20
          IN  IF c = 19 THEN t[k] = "\n"
              ELSE IF l % 4 = 0 THEN t[k] = (IF c % 6 = 0 THEN "+" ELSE "-")
              ELSE IF c % 2 = 0 THEN t[k] = (IF c % 6 = 0 THEN "|" ELSE " ")
              ELSE CellValue(t[k]) = g[l - 1 - (l \div 4)][(c - 1) \div 2] /\ t[k] # "0"
                   /\ t[k] \in {"1", "2", "3", "4", "5", "6", "7", "8", "9"}

Parseable == input.kind = "stdin" /\ TryFromSlice(Denoted(input.value)).ok

\* The two outcomes of a run on parseable input.
Solved ==
    /\ ret[1] # None
    /\ Len(proc.stdout) > 0 /\ proc.stdout[Len(proc.stdout)] = "\n"
    /\ IF proc.pretty
       THEN IsBorderedOf(SubSeq(proc.stdout, 1, Len(proc.stdout) - 1), Unwrap(ret[1]))
       ELSE IsCompactOf(SubSeq(proc.stdout, 1, Len(proc.stdout) - 1), Unwrap(ret[1]))
    /\ proc.stderr = <<>>
    /\ proc.status = "SUCCESS"

Unsolved ==
    /\ pc[1] = "return" /\ ret[1] = None
    /\ proc.stderr = NoSolution \o <<"\n">>
    /\ proc.stdout = <<>>
    /\ proc.status = "FAILURE"

\* C11: a run of the command on parseable input has, when it ends, one of
\* two outcomes and not the other: solve returned Some and the rendering of
\* the solution (bordered iff --pretty was given) and a newline are on
\* standard output, nothing is on standard error and the status is success;
\* or solve returned None, "No solution" and a newline are on standard error,
\* nothing is on standard output and the status is failure, with or without
\* --pretty. Nothing is written before the end.
C11_Outcome ==
    Parseable =>
        IF proc.pc = "exit" THEN (Solved /\ ~Unsolved) \/ (Unsolved /\ ~Solved)
        ELSE proc.stdout = <<>> /\ proc.stderr = <<>> /\ proc.status = "none"

\* A run with --pretty on a parseable puzzle has ended with a solution.
C11_Witness ==
    /\ Parseable /\ proc.pc = "exit" /\ proc.pretty
    /\ ret[1] # None

----------------------------------------------------------------------------
(* The claims about the scratch space of solve() *)

\* The cells in row-major order.
CellSeq == [k \in 1 .. N * N |-> <<(k - 1) \div N, (k - 1) % N>>]

\* The cells of one row, one column or one box with c, c apart, in row-major
\* order.
PeersOf(c) == SelectSeq(CellSeq, LAMBDA d : ArePeers(c, d))

\* The search loop of run r is at the start of an iteration.
AtLoopHead(r) == pc[r] = "iloop"

\* The cells of run r that are unfilled in the input.
Mutable(r) == {c \in Cells : self[r][c[1]][c[2]] = 0}

\* The number of cells of the sequence that hold v in the working grid of run r.
Holding(r, cells, v) ==
    Cardinality({k \in 1 .. Len(cells) : scratch[r].puzzle[cells[k][1]][cells[k][2]] = v})

\* The record of cell c of run r counts, for every digit, the peers of c that
\* hold the digit in the working grid.
CountsPeers(r, c) ==
    LET peers == PeersOf(c)
        o == scratch[r].obstructions[c[1]][c[2]]
    IN  /\ o # None
        /\ \A v \in 1 .. N : ForNumber(Unwrap(o), v) = Holding(r, peers, v)

\* C12: after InProgress::new, at the start of every iteration of the search
\* loop and when solve() returns, the record of every cell unfilled in the
\* input counts, for every digit v, those of its 20 peers (given or not) that
\* hold v in the working grid.
C12_CountsPeers ==
    \A r \in Runs :
        (AtLoopHead(r) \/ Returned(r)) => \A c \in Mutable(r) : CountsPeers(r, c)

\* An iteration starts after a retraction: an unfilled cell has two peers,
\* unfilled in the input as well, of which one holds a digit and the other has
\* been cleared.
C12_Witness ==
    /\ AtLoopHead(1) /\ coords[1] # None
    /\ scratch[1].puzzle[Unwrap(coords[1])[1]][Unwrap(coords[1])[2]] # 0
    /\ \E c \in Mutable(1) : \E d \in Mutable(1) :
          ArePeers(c, d) /\ scratch[1].puzzle[d[1]][d[2]] # 0

(* The peer loop of foreach_obstructed, called on its own *)

\* The calls of foreach_obstructed: |o| o.add(num) or |o| o.remove(num) at
\* every cell, on a scratch space in which every cell has a record.
PeerInputs ==
    {[kind |-> "cell", y |-> c[1], x |-> c[2], add |-> add, num |-> num] :
        c \in Cells, add \in BOOLEAN, num \in 1 .. N}

\* The scratch space of the call: every record counts one peer for every
\* number, so that a removal is possible everywhere.
PeerScratch ==
    [puzzle |-> ZeroGrid,
     obstructions |-> [i \in Idx |-> [j \in Idx |-> Some([v \in 1 .. N |-> 1])]]]

PeerInit ==
    /\ self = [r \in Runs |-> ZeroGrid]
    /\ scratch = [r \in Runs |-> Unallocated]
    /\ coords = [r \in Runs |-> None]
    /\ pc = [r \in Runs |-> "idle"]
    /\ ret = [r \in Runs |-> None]
    /\ at = [r \in Runs |-> <<0, 0>>]
    /\ steps = [r \in Runs |-> 0]
    /\ traced = FALSE
    /\ trail = [r \in Runs |-> <<>>]
    /\ input \in PeerInputs
    /\ calls = <<>>
    /\ proc = NoProc

\* scratch.foreach_obstructed(func, y, x)
ForeachObstructedCall ==
    /\ calls = <<>> /\ input.kind = "cell"
    /\ Called("foreach_obstructed", input,
              ForeachObstructed(PeerScratch, input.add, input.num, input.y, input.x))

PeerNext == ForeachObstructedCall

SpecPeers == PeerInit /\ [][PeerNext]_vars

\* The peer loop at c visits 20 cells of the grid, no cell twice and never c:
\* the other cells of c's row, column and box.
VisitsPeers(c) ==
    LET vis == Visited(c[1], c[2])
    IN  /\ Len(vis) = 20
        /\ \A k \in 1 .. Len(vis) : vis[k] \in Cells /\ vis[k] # c
        /\ \A k, l \in 1 .. Len(vis) : vis[k] = vis[l] => k = l
        /\ {vis[k] : k \in 1 .. Len(vis)} = {d \in Cells : ArePeers(c, d)}

\* The peer loop at c visits d exactly if the peer loop at d visits c.
VisitsBack(c) ==
    LET vis == Visited(c[1], c[2])
    IN  \A d \in Cells :
           LET back == Visited(d[1], d[2])
           IN  (\E k \in 1 .. Len(vis) : vis[k] = d) <=> (\E k \in 1 .. Len(back) : back[k] = c)

\* The call has applied func once to the record of every peer of c, and to
\* no other record.
AdjustedPeersOnce(call) ==
    LET c == <<call.arg.y, call.arg.x>>
    IN  \A d \in Cells : \A v \in 1 .. N :
           Unwrap(call.res.obstructions[d[1]][d[2]])[v] =
               IF ArePeers(c, d) /\ v = call.arg.num
               THEN (IF call.arg.add THEN 2 ELSE 0)
               ELSE 1

\* C13: at every cell the peer loop of foreach_obstructed visits exactly 20
\* cells, pairwise distinct, inside the grid and never the cell itself: the
\* other cells of its row, its column and its box; a cell visits another
\* exactly if the other visits it.
C13_PeerLoop ==
    \A k \in 1 .. Len(calls) :
        calls[k].api = "foreach_obstructed" =>
            /\ VisitsPeers(<<calls[k].arg.y, calls[k].arg.x>>)
            /\ VisitsBack(<<calls[k].arg.y, calls[k].arg.x>>)
            /\ AdjustedPeersOnce(calls[k])

\* The peer loop has run at a cell in the middle of its box and of the grid,
\* where the box loop wraps around in both directions.
C13_Witness ==
    /\ calls # <<>>
    /\ Last.api = "foreach_obstructed"
    /\ Last.arg.y = 4 /\ Last.arg.x = 4 /\ ~Last.arg.add
    /\ Unwrap(Last.res.obstructions[3][3])[Last.arg.num] = 0

----------------------------------------------------------------------------
(* The claims about the counters and the cursor *)

\* No row, column or box of the grid holds a digit twice.
ConsistentGivens(g) ==
    \A u \in Units :
        Cardinality({g[c[1]][c[2]] : c \in u} \ {0}) =
            Cardinality({c \in u : g[c[1]][c[2]] # 0})

\* Every counter of every record of run r is in 0..=3.
InRange(r) ==
    \A i, j \in Idx :
        scratch[r].obstructions[i][j] # None =>
            \A v \in 1 .. N : Unwrap(scratch[r].obstructions[i][j])[v] \in 0 .. FULL

\* C14: in every state of solve(), on any Puzzle, every counter of every
\* obstruction record is in 0..=3.
C14_CounterRange == \A r \in Runs : InRange(r)

\* The place of cell c in row-major order, from 0.
IndexOf(c) == c[1] * N + c[2]

\* Every counter of run r fits its u8, every number in the working grid is
\* 0 or an index of a record, and the positions of the loops are cells.
NoneOutOfRange(r) ==
    /\ \A i, j \in Idx :
          /\ scratch[r].puzzle[i][j] \in 0 .. N
          /\ scratch[r].obstructions[i][j] # None =>
                \A v \in 1 .. N : Unwrap(scratch[r].obstructions[i][j])[v] \in 0 .. U8MAX
    /\ coords[r] # None => Unwrap(coords[r]) \in Cells
    /\ pc[r] = "new" => at[r] \in Cells

\* C15: solve() never panics, whatever the Puzzle (conflicting givens
\* included): no counter is decremented at 0 or taken above 255, add, remove
\* and for_number get digits 1..=9 only, and no index leaves the grid.
C15_NoPanic == \A r \in Runs : pc[r] # "panic" /\ NoneOutOfRange(r)

\* solve() has returned None on conflicting givens after it had filled in,
\* and so taken back, the first unfilled cell.
C15_Witness ==
    /\ Returned(1) /\ ret[1] = None
    /\ ~ConsistentGivens(self[1])
    /\ \E c \in Mutable(1) :
          /\ \A d \in Mutable(1) : IndexOf(c) <= IndexOf(d)
          /\ \E v \in 1 .. N : Unwrap(scratch[1].obstructions[c[1]][c[2]])[v] = 0

----------------------------------------------------------------------------
(* solve() next to the backtracker without the saturation rule *)

\* The backtrack loop of the naive backtracker on a mutable cell: the search
\* resumes there, whatever the cell's record says.
RetreatNaive(r) ==
    /\ pc[r] = "backtrack"
    /\ Retreat(coords[r]) # None
    /\ LET i2 == Unwrap(Retreat(coords[r]))[1]
           j2 == Unwrap(Retreat(coords[r]))[2]
       IN  scratch[r].obstructions[i2][j2] # None
    /\ coords' = [coords EXCEPT ![r] = Retreat(@)]
    /\ pc' = [pc EXCEPT ![r] = "iloop"]
    /\ trail' = [trail EXCEPT ![r] = Mark(r, scratch[r].puzzle, Retreat(coords[r]), TRUE)]
    /\ UNCHANGED <<self, scratch, ret, at, traced, input, calls, proc>>
    /\ Tick(r)

\* A step of the naive backtracker: solve() with RetreatNaive for
\* RetreatMutable.
NaiveStep(r) ==
    \/ Call(r)
    \/ New(r)
    \/ PassFixed(r)
    \/ Place(r)
    \/ Exhaust(r)
    \/ RetreatFixed(r)
    \/ RetreatNaive(r)
    \/ RetreatOff(r)
    \/ Finish(r)

\* The naive backtracker is called on the Puzzle of run 1, once run 1 has
\* returned.
NaiveStart ==
    /\ pc[2] = "idle"
    /\ Returned(1)
    /\ pc' = [pc EXCEPT ![2] = "call"]
    /\ UNCHANGED <<self, scratch, coords, ret, at, steps, traced, trail, input, calls, proc>>

\* Run 1 is solve(); run 2 is the naive backtracker.
NaiveInit == \E p \in TracedInputs : Start([r \in Runs |-> p], {1}, FALSE)

NaiveNext == Step(1) \/ NaiveStart \/ NaiveStep(2)

SpecNaive == NaiveInit /\ [][NaiveNext]_vars

\* C16: on every Puzzle solve(), with its saturation rule in the backtrack
\* loop, returns what the naive backtracker returns, which on exhaustion of
\* a cell always resumes at the nearest mutable cell before it: None, or Some
\* of the same grid; and it takes the same number of steps to do so.
C16_SameAsNaive ==
    (Returned(1) /\ Returned(2)) => (ret[1] = ret[2] /\ steps[1] = steps[2])

\* Both have returned the same grid after more steps than a search that
\* never backtracks takes (the call, 81 cells of InProgress::new, 81
\* iterations and the return).
C16_Witness ==
    /\ Returned(1) /\ Returned(2) /\ ret[1] # None /\ ret[2] = ret[1]
    /\ steps[2] > 2 * N * N + 2

----------------------------------------------------------------------------
(* The saturation test *)

\* The sum of the nine counters of a record.
Total(o) == o[1] + o[2] + o[3] + o[4] + o[5] + o[6] + o[7] + o[8] + o[9]

\* The number of cells of the sequence that hold a digit in the working grid
\* of run r.
Filled(r, cells) ==
    Cardinality({k \in 1 .. Len(cells) : scratch[r].puzzle[cells[k][1]][cells[k][2]] # 0})

\* No record of run r is saturated, and its counters sum to 20 at most;
\* between the iterations of the loops of solve() they sum to the number of
\* peers that hold a digit.
Unsaturated(r) ==
    /\ \A i, j \in Idx :
          LET o == scratch[r].obstructions[i][j]
          IN  o # None => ~IsFull(Unwrap(o)) /\ Total(Unwrap(o)) <= 20
    /\ pc[r] \in {"iloop", "backtrack", "return"} =>
          \A c \in Mutable(r) :
              Total(Unwrap(scratch[r].obstructions[c[1]][c[2]])) = Filled(r, PeersOf(c))

\* A step of the backtrack loop of run r onto a mutable cell changes nothing
\* but the cursor and resumes the search there.
StopsAtNearest(r) ==
    (/\ pc[r] = "backtrack"
     /\ Retreat(coords[r]) # None
     /\ scratch[r].obstructions[Unwrap(Retreat(coords[r]))[1]][Unwrap(Retreat(coords[r]))[2]] # None
     /\ steps'[r] # steps[r])
    => (pc'[r] = "iloop" /\ scratch'[r] = scratch[r] /\ coords'[r] = Retreat(coords[r]))

\* C17: no record is ever saturated (all nine counters 3): the counters of a
\* record sum to the number of filled peers, at most 20, which is below 27;
\* so the branch of the backtrack loop that clears a saturated cell and goes
\* on retreating is never taken, and every backtrack stops at the nearest
\* mutable cell before the exhausted one.
C17_NeverSaturated ==
    /\ [](\A r \in Runs : Unsaturated(r))
    /\ [][\A r \in Runs : StopsAtNearest(r)]_vars

\* The search has resumed, after a backtrack, at a cell of which 18 peers
\* hold a digit.
C17_Witness ==
    /\ AtLoopHead(1) /\ coords[1] # None
    /\ LET c == Unwrap(coords[1])
       IN  /\ self[1][c[1]][c[2]] = 0
           /\ scratch[1].puzzle[c[1]][c[2]] # 0
           /\ Total(Unwrap(scratch[1].obstructions[c[1]][c[2]])) >= 18

----------------------------------------------------------------------------
(* Which solution *)

\* Grid a comes before grid b, or is b, when both are read as 81 digits in
\* row-major order.
LexLeq(a, b) ==
    LET differ == {k \in 1 .. N * N : a[CellSeq[k][1]][CellSeq[k][2]] # b[CellSeq[k][1]][CellSeq[k][2]]}
    IN  \/ differ = {}
        \/ LET k == CHOOSE m \in differ : \A n \in differ : m <= n
           IN  a[CellSeq[k][1]][CellSeq[k][2]] < b[CellSeq[k][1]][CellSeq[k][2]]

\* C18: on a Puzzle whose givens do not conflict and that has a valid
\* completion, solve() returns the completion that comes first when the
\* grids are read as 81 digits in row-major order.
C18_SmallestCompletion ==
    \A r \in Runs :
        (Returned(r) /\ ConsistentGivens(self[r]) /\ Completions(self[r]) # {}) =>
            /\ ret[r] # None
            /\ Unwrap(ret[r]) \in Completions(self[r])
            /\ \A g \in Completions(self[r]) : LexLeq(Unwrap(ret[r]), g)

\* solve() has returned on a Puzzle that has several completions, of which
\* one comes after the returned grid.
C18_Witness ==
    /\ Returned(1) /\ ret[1] # None
    /\ ConsistentGivens(self[1])
    /\ \E g \in Completions(self[1]) : g # Unwrap(ret[1]) /\ LexLeq(Unwrap(ret[1]), g)

----------------------------------------------------------------------------
(* The cursor *)

\* The row-major index of the cell under the cursor of run r; 81 when the
\* cursor is past (8, 8).
CursorIndex(r) == IF coords[r] = None THEN N * N ELSE IndexOf(Unwrap(coords[r]))

\* Cell c of run r holds a digit that none of its peers holds.
HoldsAccepted(r, c) ==
    /\ scratch[r].puzzle[c[1]][c[2]] \in 1 .. N
    /\ \A d \in Cells :
          ArePeers(c, d) => scratch[r].puzzle[d[1]][d[2]] # scratch[r].puzzle[c[1]][c[2]]

\* The working grid of run r around its cursor: the mutable cells before the
\* cursor hold accepted digits, those after it hold 0, and the one under it
\* holds 0 or an accepted digit.
AroundCursor(r) ==
    \A c \in Mutable(r) :
        /\ IndexOf(c) < CursorIndex(r) => HoldsAccepted(r, c)
        /\ IndexOf(c) > CursorIndex(r) => scratch[r].puzzle[c[1]][c[2]] = 0
        /\ IndexOf(c) = CursorIndex(r) =>
              scratch[r].puzzle[c[1]][c[2]] = 0 \/ HoldsAccepted(r, c)

\* C19: at the start of every iteration of the search loop, with the cursor
\* at cell k, every mutable cell before k holds a nonzero value that differs
\* from the value of each of its 20 peers, every mutable cell after k holds
\* 0, and cell k, if mutable, holds 0 or a value accepted before; when the
\* cursor is past (8,8) no mutable cell holds 0.
C19_Cursor ==
    \A r \in Runs :
        AtLoopHead(r) =>
            /\ AroundCursor(r)
            /\ coords[r] = None => \A c \in Mutable(r) : scratch[r].puzzle[c[1]][c[2]] # 0

\* An iteration starts on a mutable cell that holds a digit, after a
\* backtrack, with mutable cells on both sides of the cursor.
C19_Witness ==
    /\ AtLoopHead(1) /\ coords[1] # None
    /\ self[1][Unwrap(coords[1])[1]][Unwrap(coords[1])[2]] = 0
    /\ scratch[1].puzzle[Unwrap(coords[1])[1]][Unwrap(coords[1])[2]] # 0
    /\ \E c, d \in Mutable(1) : IndexOf(c) < CursorIndex(1) /\ CursorIndex(1) < IndexOf(d)

====
